---- MODULE Spec2Model ----
(***************************************************************************)
(* A model of the chopshop request context: the principal and its rights   *)
(* list, the rights-filtered serializer (safeSerialize), and the two-phase *)
(* decoder (ReadJSON = unfiltered decode into a scratch record, then       *)
(* safeMerge into the target).                                             *)
(*                                                                         *)
(* Go values are records tagged with their reflect.Kind in field k.        *)
(* Struct tags are kept per field; the json tag is a sequence of tokens in *)
(* which "," is a token of its own, so that strings.Index(tag, ",") and    *)
(* the slicing around it are computed as the code computes them.           *)
(***************************************************************************)
EXTENDS Integers, Sequences, FiniteSets, TLC

\* Longest rights list a principal is given or grown to.
MaxRights == 2

\* The right names used in tags and granted to principals.
Rights == {"admin", "edit"}

None == [k |-> "none"]

----------------------------------------------------------------------------
(* Field descriptors (reflect.StructField) and the record types.           *)

Field(name, anonymous, json, readWrite, writeRight, type) ==
    [Name |-> name, Anonymous |-> anonymous, json |-> json,
     readWrite |-> readWrite, writeRight |-> writeRight, type |-> type]

StructType(fields, marshaler, unmarshaler) ==
    [kind |-> "struct", fields |-> fields,
     marshaler |-> marshaler, unmarshaler |-> unmarshaler]

TypeNames ==
    {"string", "int", "bool", "interface{}", "Time", "Inner", "*Inner",
     "[]Inner", "[1]Inner", "[]*Inner", "map[string]Inner", "Account",
     "Profile", "Bag", "Base", "Mid", "Outer", "Scalars", "Refs",
     "*Account"}

TypeTable ==
    [t \in TypeNames |->
       CASE t = "string" -> [kind |-> "string"]
         [] t = "int" -> [kind |-> "int"]
         [] t = "bool" -> [kind |-> "bool"]
         [] t = "interface{}" -> [kind |-> "interface"]
         [] t = "*Inner" -> [kind |-> "ptr", elem |-> "Inner"]
         [] t = "*Account" -> [kind |-> "ptr", elem |-> "Account"]
         [] t = "[]Inner" -> [kind |-> "slice", elem |-> "Inner"]
         [] t = "[]*Inner" -> [kind |-> "slice", elem |-> "*Inner"]
         [] t = "[1]Inner" -> [kind |-> "array", elem |-> "Inner"]
         [] t = "map[string]Inner" -> [kind |-> "map", elem |-> "Inner"]
         \* a leaf type with its own text encoding and decoding (time.Time)
         [] t = "Time" -> StructType(
              << Field("wall", FALSE, <<>>, "", "", "string") >>, TRUE, TRUE)
         [] t = "Inner" -> StructType(
              << Field("Zip", FALSE, <<"zip">>, "admin", "admin", "string"),
                 Field("City", FALSE, <<"city">>, "", "", "string") >>,
              FALSE, FALSE)
         [] t = "Account" -> StructType(
              << Field("Name", FALSE, <<"name">>, "", "", "string"),
                 Field("Secret", FALSE, <<"secret", ",", "omitempty">>,
                       "admin", "admin", "string"),
                 Field("UserID", FALSE, <<>>, "", "edit", "int"),
                 Field("Hidden", FALSE, <<"-">>, "", "", "string") >>,
              FALSE, FALSE)
         [] t = "Profile" -> StructType(
              << Field("Addr", FALSE, <<"addr">>, "", "", "Inner"),
                 Field("Ref", FALSE, <<"ref">>, "", "", "*Inner"),
                 Field("Items", FALSE, <<"items">>, "", "", "[]Inner"),
                 Field("At", FALSE, <<"at">>, "", "", "Time") >>,
              FALSE, FALSE)
         [] t = "Bag" -> StructType(
              << Field("Arr", FALSE, <<"arr">>, "", "", "[1]Inner"),
                 Field("Map", FALSE, <<"map">>, "", "", "map[string]Inner"),
                 Field("Any", FALSE, <<"any">>, "", "", "interface{}") >>,
              FALSE, FALSE)
         [] t = "Base" -> StructType(
              << Field("ID", FALSE, <<"id">>, "", "", "int"),
                 Field("Kind", FALSE, <<"kind">>, "", "", "string") >>,
              FALSE, FALSE)
         \* reflect names an embedded field after its type
         [] t = "Mid" -> StructType(
              << Field("Base", TRUE, <<>>, "", "", "Base"),
                 Field("Label", FALSE, <<"label">>, "", "", "string") >>,
              FALSE, FALSE)
         [] t = "Outer" -> StructType(
              << Field("Mid", TRUE, <<>>, "", "", "Mid"),
                 Field("Title", FALSE, <<"title">>, "", "", "string"),
                 Field("Alias", FALSE, <<"title">>, "", "", "string") >>,
              FALSE, FALSE)
         [] t = "Scalars" -> StructType(
              << Field("S", FALSE, <<"s", ",", "omitempty">>, "", "", "string"),
                 Field("N", FALSE, <<"n", ",", "string", ",", "omitempty">>,
                       "", "", "int"),
                 Field("B", FALSE, <<",", "omitempty">>, "", "", "bool"),
                 Field("E", FALSE, <<"e">>, "", "", "string"),
                 Field("G", FALSE, <<"g", ",", "omitempty">>,
                       "edit", "", "string"),
                 Field("X", FALSE, <<"-", ",", "omitempty">>,
                       "", "", "string") >>,
              FALSE, FALSE)
         [] t = "Refs" -> StructType(
              << Field("P", FALSE, <<"p", ",", "omitempty">>, "", "", "*Inner"),
                 Field("L", FALSE, <<"l", ",", "omitempty", ",", "string">>,
                       "", "", "[]Inner"),
                 Field("V", FALSE, <<"v", ",", "omitempty">>, "", "", "Inner"),
                 Field("Q", FALSE, <<"q">>, "", "", "*Inner"),
                 Field("I", FALSE, <<"i", ",", "omitempty">>,
                       "", "", "interface{}") >>,
              FALSE, FALSE)]

----------------------------------------------------------------------------
(* Go values.                                                              *)

GoString(s) == [k |-> "string", s |-> s]
GoInt(n) == [k |-> "int", n |-> n]
GoBool(b) == [k |-> "bool", b |-> b]
Struct(t, f) == [k |-> "struct", t |-> t, f |-> f]
Ptr(e) == [k |-> "ptr", nil |-> FALSE, e |-> e]
NilPtr == [k |-> "ptr", nil |-> TRUE]
Slice(e) == [k |-> "slice", e |-> e]
Array(e) == [k |-> "array", e |-> e]
Map(e) == [k |-> "map", e |-> e]
Iface(e) == [k |-> "interface", nil |-> FALSE, e |-> e]
NilIface == [k |-> "interface", nil |-> TRUE]
\* the zero reflect.Value: reflect.ValueOf(nil), or Elem() of a nil pointer
NilValue == [k |-> "invalid"]
\* what encoding/json stores in an interface{} for a wire object or list
Generic(w) == [k |-> "generic", w |-> w]

RECURSIVE Zero(_)
Zero(t) ==
    LET ty == TypeTable[t] IN
    CASE ty.kind = "string" -> GoString("")
      [] ty.kind = "int" -> GoInt(0)
      [] ty.kind = "bool" -> GoBool(FALSE)
      [] ty.kind = "interface" -> NilIface
      [] ty.kind = "ptr" -> NilPtr
      [] ty.kind = "slice" -> Slice(<<>>)
      [] ty.kind = "map" -> Map(<<>>)
      [] ty.kind = "array" -> Array(<<Zero(ty.elem)>>)
      [] ty.kind = "struct" ->
           Struct(t, [i \in 1..Len(ty.fields) |-> Zero(ty.fields[i].type)])

----------------------------------------------------------------------------
(* reflect.go: the emptiness table and the json tag helpers.               *)

isEmpty(v) ==
    CASE v.k \in {"array", "map", "slice"} -> Len(v.e) = 0
      [] v.k = "string" -> v.s = ""
      [] v.k = "bool" -> ~v.b
      [] v.k = "int" -> v.n = 0
      [] v.k \in {"interface", "ptr"} -> v.nil
      [] OTHER -> FALSE

\* strings.Index(s, ","), 1-based, 0 when there is no comma
IndexComma(s) ==
    IF \E i \in 1..Len(s) : s[i] = ","
    THEN CHOOSE i \in 1..Len(s) : s[i] = "," /\ \A j \in 1..(i - 1) : s[j] # ","
    ELSE 0

RECURSIVE hasJSONOption(_, _)
hasJSONOption(key, opts) ==
    IF Len(opts) = 0 THEN FALSE
    ELSE LET i == IndexComma(opts)
             head == IF i >= 1 THEN SubSeq(opts, 1, i - 1) ELSE opts
             next == IF i >= 1 THEN SubSeq(opts, i + 1, Len(opts)) ELSE <<>>
         IN IF head = key THEN TRUE ELSE hasJSONOption(key, next)

\* returns <<name, opts>>
parseJSONTag(tag) ==
    LET idx == IndexComma(tag) IN
    IF idx # 0
    THEN << SubSeq(tag, 1, idx - 1), SubSeq(tag, idx + 1, Len(tag)) >>
    ELSE << tag, <<>> >>

\* snaker.CamelToSnake on the field names of the type table
CamelToSnake(s) ==
    CASE s = "UserID" -> "user_id"
      [] s = "Name" -> "name"
      [] s = "Secret" -> "secret"
      [] s = "Hidden" -> "hidden"
      [] s = "Base" -> "base"
      [] s = "Mid" -> "mid"
      [] s = "B" -> "b"
      [] OTHER -> s

----------------------------------------------------------------------------
(* The principal and its rights list.                                      *)

VARIABLES
    principal,  \* ctx.principal: None (nil) or a Principal
    op,         \* the operation that ran last
    right,      \* the right given to the last AddRight / RemoveRight
    prior,      \* ctx.principal before the last operation
    err,        \* whether the last operation returned an error
    src,        \* the value given to JSONResponse, or the target before ReadJSON
    out,        \* the tree safeSerialize returned
    body,       \* the wire body ReadJSON read
    scratch,    \* the scratch record ReadJSON decoded into
    target,     \* the target record after ReadJSON
    phase,      \* "handler" while the handler runs, "responded" after it
    bodyRead,   \* whether the request body has been consumed
    routers,    \* the Routers: mw, and the middleware given to Middleware
    routes,     \* the Routes: owning router, mw, mounted, the captured fn
    served,     \* the route that served the last request, 0 for none
    trace,      \* the middleware the last request passed, outermost first
    chain,      \* AssetResolver.chain
    chainOps,   \* the chain operations called so far, oldest first
    path,       \* the path given to the last Resolve
    invoked,    \* the handlers the last Resolve invoked, in order
    resolved,   \* what the last Resolve returned
    destroyingSession,  \* RequestContext.destroyingSession
    token,      \* RequestContext.token: its sub claim and session variables
    requires,   \* the right the route's RightCheckMiddleware asks for, or ""
    checked,    \* what RightCheckMiddleware found at the moment of its check
    handlerRan, \* whether the wrapped handler was invoked for this request
    events,     \* the steps of ServeContext taken for this request, in order
    cookies,    \* the Set-Cookie headers of the response, in order
    status      \* the status of the response the handler chain returned

routerVars == << routers, routes, served, trace >>

assetVars == << chain, chainOps, path, invoked, resolved >>

serveVars ==
    << destroyingSession, token, requires, checked, handlerRan, events,
       cookies, status >>

vars ==
    << principal, op, right, prior, err, src, out, body, scratch, target,
       phase, bodyRead, routerVars, assetVars, serveVars >>

NewPrincipal(username, user_id, rights) ==
    [k |-> "principal", Username |-> username, UserID |-> user_id,
     Rights |-> rights]

\* hasItem that stops at the first entry of the list
hasItemFirstOnly(item, list) == Len(list) >= 1 /\ list[1] = item

hasItem(item, list) == \E i \in 1..Len(list) : list[i] = item

IsAuthenticated(p) == p # None

HasRight(p, r) == IF p = None THEN FALSE ELSE hasItem(r, p.Rights)

\* sort.Search(n, f) with f(i) = (rights[i] == right), indices from 0
RECURSIVE Search(_, _, _, _)
Search(rights, r, lo, hi) ==
    IF lo < hi
    THEN LET h == (lo + hi) \div 2 IN
         IF ~(rights[h + 1] = r)
         THEN Search(rights, r, h + 1, hi)
         ELSE Search(rights, r, lo, h)
    ELSE lo

\* the rights list RemoveRight leaves behind, for an authenticated context
RemoveRightFrom(rights, r) ==
    LET i == Search(rights, r, 0, Len(rights)) IN
    IF i >= Len(rights) THEN rights
    ELSE SubSeq(rights, 1, i) \o SubSeq(rights, i + 2, Len(rights))

RightLists == UNION {[1..n -> Rights] : n \in 0..MaxRights}

----------------------------------------------------------------------------
(* The serializer.  A tree is what safeSerialize hands to JSONResponse:    *)
(* a map[string]interface{} (obj), a []interface{} (list), or a Go value   *)
(* passed through untouched (raw).  Panic is a run-time panic.             *)

TObj(m) == [k |-> "obj", m |-> m]
TList(e) == [k |-> "list", e |-> e]
TRaw(v) == [k |-> "raw", v |-> v]
Panic == [k |-> "panic"]

\* the key safeSerializeStruct files a field under
WireName(field) ==
    LET name == parseJSONTag(field.json)[1] IN
    IF name = <<>> THEN CamelToSnake(field.Name) ELSE name[1]

RECURSIVE safeSerialize(_, _)
RECURSIVE safeSerializeStruct(_, _, _)
RECURSIVE safeSerializeFields(_, _, _, _)
RECURSIVE safeSerializeSlice(_, _, _, _)

\* the body of the loop over the fields of src, from field i on
safeSerializeFields(p, v, i, acc) ==
    LET fields == TypeTable[v.t].fields IN
    IF i > Len(fields) THEN TObj(acc)
    ELSE
      LET field == fields[i]
          r == field.readWrite
          tag == parseJSONTag(field.json)
          name == tag[1]
          opts == tag[2]
      IN
      IF ~(r = "" \/ HasRight(p, r))
      THEN safeSerializeFields(p, v, i + 1, acc)
      ELSE IF name = <<"-">>
              \/ (hasJSONOption(<<"omitempty">>, opts) /\ isEmpty(v.f[i]))
      THEN safeSerializeFields(p, v, i + 1, acc)
      ELSE IF name = <<>> /\ field.Name = ""
      \* the call is on src itself, not on the field: it never returns
      THEN Panic
      ELSE
        LET val == safeSerialize(p, v.f[i]) IN
        IF val.k = "panic" THEN Panic
        ELSE safeSerializeFields(p, v, i + 1, (WireName(field) :> val) @@ acc)

safeSerializeStruct(p, v, acc) == safeSerializeFields(p, v, 1, acc)

safeSerializeSlice(p, v, i, acc) ==
    IF i > Len(v.e) THEN TList(acc)
    ELSE LET val == safeSerialize(p, v.e[i]) IN
         IF val.k = "panic" THEN Panic
         ELSE safeSerializeSlice(p, v, i + 1, Append(acc, val))

\* src.Elem() of a nil pointer is the zero reflect.Value, and Type() on it
\* panics; the same holds for reflect.ValueOf(nil) at the top level
safeSerialize(p, v) ==
    CASE v.k = "invalid" -> Panic
      [] v.k = "slice" -> safeSerializeSlice(p, v, 1, <<>>)
      [] v.k = "struct" ->
           IF TypeTable[v.t].marshaler THEN TRaw(v)
           ELSE safeSerializeStruct(p, v, <<>>)
      [] v.k = "ptr" ->
           safeSerialize(p, IF v.nil THEN NilValue ELSE v.e)
      [] OTHER -> TRaw(v)

----------------------------------------------------------------------------
(* The wire format and encoding/json, as JSONResponse and ReadJSONUnsafe   *)
(* use it.  WBad is a body that is not well-formed JSON.                   *)

WNull == [k |-> "null"]
WStr(x) == [k |-> "str", s |-> x]
WNum(n) == [k |-> "num", n |-> n]
WBool(b) == [k |-> "bool", b |-> b]
WObj(m) == [k |-> "obj", m |-> m]
WList(e) == [k |-> "list", e |-> e]
WBad == [k |-> "bad"]

\* the name encoding/json knows a field by: the tag's name, else the Go name
StdName(field) ==
    LET name == parseJSONTag(field.json)[1] IN
    IF name = <<>> THEN field.Name ELSE name[1]

\* encoding/json matches object keys to field names ignoring case
Fold(x) ==
    CASE x = "UserID" -> "userid"
      [] x = "Name" -> "name"
      [] x = "Secret" -> "secret"
      [] x = "Hidden" -> "hidden"
      [] OTHER -> x

RECURSIVE StdEncode(_)
StdEncode(v) ==
    CASE v.k = "string" -> WStr(v.s)
      [] v.k = "int" -> WNum(v.n)
      [] v.k = "bool" -> WBool(v.b)
      [] v.k = "generic" -> v.w
      [] v.k \in {"ptr", "interface"} ->
           IF v.nil THEN WNull ELSE StdEncode(v.e)
      [] v.k \in {"slice", "array"} ->
           WList([i \in 1..Len(v.e) |-> StdEncode(v.e[i])])
      [] v.k = "map" ->
           WObj([key \in {v.e[i].key : i \in 1..Len(v.e)} |->
                   StdEncode((CHOOSE en \in {v.e[i] : i \in 1..Len(v.e)} :
                                 en.key = key).val)])
      [] v.k = "struct" ->
           LET ty == TypeTable[v.t]
               kept == {i \in 1..Len(ty.fields) :
                          LET tag == parseJSONTag(ty.fields[i].json) IN
                          /\ tag[1] # <<"-">>
                          /\ ~(hasJSONOption(<<"omitempty">>, tag[2])
                               /\ isEmpty(v.f[i]))}
           IN IF ty.marshaler THEN WStr(v.f[1].s)
              ELSE WObj([key \in {StdName(ty.fields[i]) : i \in kept} |->
                           StdEncode(v.f[CHOOSE i \in kept :
                                           StdName(ty.fields[i]) = key])])

\* json.NewEncoder(w).Encode(tree)
RECURSIVE JSONEncode(_)
JSONEncode(tree) ==
    CASE tree.k = "obj" ->
           WObj([key \in DOMAIN tree.m |-> JSONEncode(tree.m[key])])
      [] tree.k = "list" ->
           WList([i \in 1..Len(tree.e) |-> JSONEncode(tree.e[i])])
      [] tree.k = "raw" -> StdEncode(tree.v)

\* json.NewDecoder(body).Decode(&scratch) on a zero-valued scratch of type
\* t.  DecodeError is whether Decode returns an error and DecodeValue is the
\* scratch afterwards.  A value of the wrong shape is an error that leaves
\* its own field alone while the rest of the body is still decoded; a body
\* that is not JSON is rejected before any field is set.
WrongShape(w, ty) ==
    CASE ty.kind = "string" -> w.k # "str"
      [] ty.kind = "int" -> w.k # "num"
      [] ty.kind = "bool" -> w.k # "bool"
      [] ty.kind \in {"slice", "array"} -> w.k # "list"
      [] ty.kind = "map" -> w.k # "obj"
      [] ty.kind = "struct" -> w.k # (IF ty.unmarshaler THEN "str" ELSE "obj")
      [] OTHER -> FALSE

\* the object keys encoding/json binds to a field
FieldKeys(w, field) ==
    IF parseJSONTag(field.json)[1] = <<"-">> THEN {}
    ELSE {key \in DOMAIN w.m : Fold(key) = Fold(StdName(field))}

RECURSIVE DecodeError(_, _)
DecodeError(w, t) ==
    LET ty == TypeTable[t] IN
    IF w.k = "bad" THEN TRUE
    ELSE IF w.k = "null" THEN FALSE
    ELSE IF WrongShape(w, ty) THEN TRUE
    ELSE
    CASE ty.kind = "ptr" -> DecodeError(w, ty.elem)
      [] ty.kind \in {"slice", "array"} ->
           \E i \in 1..Len(w.e) :
              (ty.kind = "slice" \/ i <= 1) /\ DecodeError(w.e[i], ty.elem)
      [] ty.kind = "map" ->
           \E key \in DOMAIN w.m : DecodeError(w.m[key], ty.elem)
      [] ty.kind = "struct" /\ ~ty.unmarshaler ->
           \E i \in 1..Len(ty.fields) :
              \E key \in FieldKeys(w, ty.fields[i]) :
                 DecodeError(w.m[key], ty.fields[i].type)
      [] OTHER -> FALSE

RECURSIVE MapEntries(_, _, _)
RECURSIVE DecodeValue(_, _)

MapEntries(w, keys, elem) ==
    IF keys = {} THEN <<>>
    ELSE LET key == CHOOSE x \in keys : TRUE IN
         <<[key |-> key, val |-> DecodeValue(w.m[key], elem)]>>
            \o MapEntries(w, keys \ {key}, elem)

DecodeValue(w, t) ==
    LET ty == TypeTable[t] IN
    IF w.k \in {"bad", "null"} \/ WrongShape(w, ty) THEN Zero(t)
    ELSE
    CASE ty.kind = "string" -> GoString(w.s)
      [] ty.kind = "int" -> GoInt(w.n)
      [] ty.kind = "bool" -> GoBool(w.b)
      [] ty.kind = "interface" ->
           Iface(CASE w.k = "str" -> GoString(w.s)
                   [] w.k = "num" -> GoInt(w.n)
                   [] w.k = "bool" -> GoBool(w.b)
                   [] OTHER -> Generic(w))
      [] ty.kind = "ptr" -> Ptr(DecodeValue(w, ty.elem))
      [] ty.kind = "slice" ->
           Slice([i \in 1..Len(w.e) |-> DecodeValue(w.e[i], ty.elem)])
      [] ty.kind = "array" ->
           Array(<< IF Len(w.e) >= 1 THEN DecodeValue(w.e[1], ty.elem)
                    ELSE Zero(ty.elem) >>)
      [] ty.kind = "map" -> Map(MapEntries(w, DOMAIN w.m, ty.elem))
      [] ty.kind = "struct" ->
           IF ty.unmarshaler THEN Struct(t, <<GoString(w.s)>>)
           ELSE Struct(t,
                  [i \in 1..Len(ty.fields) |->
                     IF FieldKeys(w, ty.fields[i]) = {}
                     THEN Zero(ty.fields[i].type)
                     ELSE DecodeValue(
                            w.m[CHOOSE key \in FieldKeys(w, ty.fields[i]) : TRUE],
                            ty.fields[i].type)])

----------------------------------------------------------------------------
(* The merger and ReadJSON.                                                *)

isRecursibleType(v) == v.k = "struct" /\ ~TypeTable[v.t].unmarshaler

RECURSIVE safeMerge(_, _, _)

\* safeMerge as a sparse patch: a zero-valued scratch field is not copied
safeMergePatch(p, s, d) ==
    [d EXCEPT !.f =
       [i \in 1..Len(TypeTable[d.t].fields) |->
          IF (TypeTable[d.t].fields[i].writeRight = ""
              \/ HasRight(p, TypeTable[d.t].fields[i].writeRight))
             /\ s.f[i] # Zero(TypeTable[d.t].fields[i].type)
          THEN IF isRecursibleType(s.f[i])
               THEN safeMerge(p, s.f[i], d.f[i])
               ELSE s.f[i]
          ELSE d.f[i]]]

\* safeMerge(src, dst): dst afterwards.  The loop visits every field of dst
\* once and an iteration writes only its own field, so the fields are
\* given here side by side.
safeMerge(p, s, d) ==
    [d EXCEPT !.f =
       [i \in 1..Len(TypeTable[d.t].fields) |->
          IF TypeTable[d.t].fields[i].writeRight = ""
             \/ HasRight(p, TypeTable[d.t].fields[i].writeRight)
          THEN IF isRecursibleType(s.f[i])
               THEN safeMerge(p, s.f[i], d.f[i])
               ELSE s.f[i]
          ELSE d.f[i]]]

\* ReadJSON that merges the scratch record whether or not decoding failed
ReadJSONIgnoringError(p, v, w) ==
    [scratch |-> DecodeValue(w, v.t), err |-> DecodeError(w, v.t),
     target |-> safeMerge(p, DecodeValue(w, v.t), v)]

\* ReadJSON(&v) with request body w:
\* [scratch |-> ru, err |-> an error was returned, target |-> v afterwards]
ReadJSON(p, v, w) ==
    IF DecodeError(w, v.t)
    THEN [scratch |-> DecodeValue(w, v.t), err |-> TRUE, target |-> v]
    ELSE [scratch |-> DecodeValue(w, v.t), err |-> FALSE,
          target |-> safeMerge(p, DecodeValue(w, v.t), v)]

----------------------------------------------------------------------------
(* The values handlers serialize and read into, and the request bodies.    *)

Inner(zip, city) == Struct("Inner", <<GoString(zip), GoString(city)>>)
Time(wall) == Struct("Time", <<GoString(wall)>>)

Texts == {"", "x"}
Numbers == {0, 7}

Accounts ==
    {Struct("Account", <<GoString(n), GoString(s), GoInt(u), GoString(h)>>) :
       n \in Texts, s \in Texts, u \in Numbers, h \in Texts}

Profiles ==
    {Struct("Profile", <<a, r, i, t>>) :
       a \in {Inner("", ""), Inner("z", "c")},
       r \in {NilPtr, Ptr(Inner("z", "c"))},
       i \in {Slice(<<>>), Slice(<<Inner("z", "c")>>)},
       t \in {Time(""), Time("t")}}

Bags ==
    {Struct("Bag", <<Array(<<a>>), m, i>>) :
       a \in {Inner("", ""), Inner("z", "c")},
       m \in {Map(<<>>), Map(<<[key |-> "home", val |-> Inner("z", "c")]>>)},
       i \in {NilIface, Iface(GoString("x")), Iface(Inner("z", "c")),
              Iface(Ptr(Inner("z", "c")))}}

Outers ==
    {Struct("Outer",
            <<Struct("Mid", <<Struct("Base", <<GoInt(7), GoString(b)>>),
                              GoString("l")>>),
              GoString(t), GoString(a)>>) :
       b \in Texts, t \in Texts, a \in {"", "y"}}

Scalars ==
    {Struct("Scalars", <<GoString(s), GoInt(n), GoBool(b), GoString(e),
                         GoString(g), GoString("x")>>) :
       s \in Texts, n \in Numbers, b \in BOOLEAN, e \in Texts, g \in Texts}

Refs ==
    {Struct("Refs", <<p, l, Inner("", ""), q, i>>) :
       p \in {NilPtr, Ptr(Inner("", ""))},
       l \in {Slice(<<>>), Slice(<<Inner("", "")>>)},
       q \in {NilPtr, Ptr(Inner("", ""))},
       i \in {NilIface, Iface(GoString(""))}}

\* what a handler hands to JSONResponse
Serialized ==
    Accounts \cup Profiles \cup Bags \cup Outers \cup Scalars \cup Refs
      \cup {NilValue, NilPtr, Ptr(Inner("z", "c")),
            Slice(<<Ptr(Inner("z", "c")), NilPtr>>),
            Slice(<<Inner("z", "c"), Inner("", "c")>>),
            GoString("x")}

\* what a handler hands to ReadJSON (by pointer)
ReadTargets ==
    {a \in Accounts : a.f[4].s = "x"}
      \cup {r \in Profiles : Len(r.f[3].e) > 0 /\ r.f[4].f[1].s = "t"}

\* m restricted to the keys whose value is not None
Present(m) == [key \in {x \in DOMAIN m : m[x] # None} |-> m[key]]

\* the request bodies a client sends for a record of type t
Bodies(t) ==
    {WBad} \cup
    IF t = "Account"
    THEN {WObj("hidden" :> WStr("h2"))} \cup
         {WObj(Present(n @@ s @@ u)) :
            n \in {"name" :> None, "name" :> WStr("y"), "name" :> WNum(9)},
            s \in {"secret" :> None, "secret" :> WStr("s2")},
            u \in {"UserID" :> None, "UserID" :> WNum(9), "user_id" :> WNum(9)}}
    ELSE {WObj("ref" :> WNull)} \cup
         {WObj(Present(a @@ r @@ i)) :
            a \in {"addr" :> None,
                   "addr" :> WObj("city" :> WStr("c2")),
                   "addr" :> WObj(("zip" :> WStr("z2")) @@ ("city" :> WStr("c2")))},
            r \in {"ref" :> None, "ref" :> WObj("zip" :> WStr("z2"))},
            i \in {"items" :> None,
                   "items" :> WList(<<WObj("zip" :> WStr("z2"))>>),
                   "at" :> WStr("t2"), "at" :> WNum(9)}}

----------------------------------------------------------------------------
(* The operations of a request context.                                    *)

Principals ==
    {None} \cup {NewPrincipal("alice", 7, rs) : rs \in RightLists}

\* buildToken: the token of a new session
buildToken == [sub |-> None, vars |-> {}]

\* the objects NewFramework and NewAssetResolver construct, and the context
\* of the first request of a session: its token is new, and its principal
\* is none or what the handler has set so far
InitContext ==
    /\ principal \in Principals
    /\ op = "init"
    /\ right = ""
    /\ prior = principal
    /\ err = FALSE
    /\ src = None
    /\ out = None
    /\ body = None
    /\ scratch = None
    /\ target = None
    /\ bodyRead = FALSE
    /\ routers = << [mw |-> << >>, given |-> {}] >>
    /\ routes = << >>
    /\ served = 0
    /\ trace = << >>
    /\ chain = << >>
    /\ chainOps = << >>
    /\ path = ""
    /\ invoked = << >>
    /\ resolved = None
    /\ destroyingSession = FALSE
    /\ token = buildToken
    /\ requires = ""
    /\ checked = None
    /\ handlerRan = FALSE
    /\ events = << >>
    /\ cookies = << >>
    /\ status = 0

Init == InitContext /\ phase = "handler"

NoCodec ==
    /\ src' = None
    /\ out' = None
    /\ body' = None
    /\ scratch' = None
    /\ target' = None

SetPrincipal ==
    \E rights \in RightLists :
       /\ phase = "handler"
       /\ principal' = NewPrincipal("alice", 7, rights)
       /\ op' = "SetPrincipal"
       /\ right' = ""
       /\ prior' = principal
       /\ err' = FALSE
       /\ NoCodec
       /\ UNCHANGED << phase, bodyRead >>
       /\ UNCHANGED << routerVars, assetVars, serveVars >>

DestroyPrincipal ==
    /\ phase = "handler"
    /\ principal' = None
    /\ op' = "DestroyPrincipal"
    /\ right' = ""
    /\ prior' = principal
    /\ err' = FALSE
    /\ NoCodec
    /\ UNCHANGED << phase, bodyRead >>
    /\ UNCHANGED << routerVars, assetVars, serveVars >>

AddRight ==
    \E r \in Rights :
       /\ phase = "handler"
       /\ IsAuthenticated(principal) => Len(principal.Rights) < MaxRights
       /\ IF ~IsAuthenticated(principal)
          THEN principal' = principal /\ err' = TRUE
          ELSE /\ principal' =
                    [principal EXCEPT !.Rights = Append(principal.Rights, r)]
               /\ err' = FALSE
       /\ op' = "AddRight"
       /\ right' = r
       /\ prior' = principal
       /\ NoCodec
       /\ UNCHANGED << phase, bodyRead >>
       /\ UNCHANGED << routerVars, assetVars, serveVars >>

RemoveRight ==
    \E r \in Rights :
       /\ phase = "handler"
       /\ IF ~IsAuthenticated(principal)
          THEN principal' = principal
          ELSE principal' =
                 [principal EXCEPT
                    !.Rights = RemoveRightFrom(principal.Rights, r)]
       /\ op' = "RemoveRight"
       /\ right' = r
       /\ prior' = principal
       /\ err' = FALSE
       /\ NoCodec
       /\ UNCHANGED << phase, bodyRead >>
       /\ UNCHANGED << routerVars, assetVars, serveVars >>

\* MakeJSONResponse: safeSerialize returns no error, so the response is the
\* tree (or the handler panics); the handler returns it
JSONResponse ==
    \E v \in Serialized :
       /\ phase = "handler"
       /\ src' = v
       /\ out' = safeSerialize(principal, v)
       /\ op' = "JSONResponse"
       /\ err' = FALSE
       /\ right' = ""
       /\ prior' = principal
       /\ body' = None
       /\ scratch' = None
       /\ target' = None
       /\ phase' = "responded"
       /\ UNCHANGED << principal, bodyRead >>
       /\ UNCHANGED << routerVars, assetVars, serveVars >>

ReadInto(v, w, name) ==
    \E res \in {ReadJSON(principal, v, w)} :
    /\ src' = v
    /\ body' = w
    /\ scratch' = res.scratch
    /\ target' = res.target
    /\ err' = res.err
    /\ op' = name
    /\ out' = None
    /\ right' = ""
    /\ prior' = principal
    /\ phase' = "handler"
    /\ bodyRead' = TRUE
    /\ UNCHANGED principal
    /\ UNCHANGED << routerVars, assetVars, serveVars >>

\* ReadJSON on the body the client sent; the body is a stream read once
ReadJSONRequest ==
    /\ phase = "handler"
    /\ ~bodyRead
    /\ \E v \in ReadTargets : \E w \in Bodies(v.t) : ReadInto(v, w, "ReadJSON")

\* the next request of the same session sends back the body the client was
\* served, and its handler reads it into the record that was served
ReadJSONEcho ==
    /\ phase = "responded"
    /\ op = "JSONResponse"
    /\ src.k = "struct"
    /\ src.t \in {"Account", "Profile"}
    /\ out.k # "panic"
    /\ ReadInto(src, JSONEncode(out), "ReadJSONEcho")

\* the next request of the same session
NextRequest ==
    /\ phase = "responded"
    /\ phase' = "handler"
    /\ bodyRead' = FALSE
    /\ op' = "init"
    /\ right' = ""
    /\ prior' = principal
    /\ err' = FALSE
    /\ NoCodec
    /\ UNCHANGED principal
    /\ UNCHANGED << routerVars, assetVars, serveVars >>

Next ==
    \/ SetPrincipal
    \/ DestroyPrincipal
    \/ AddRight
    \/ RemoveRight
    \/ JSONResponse
    \/ ReadJSONRequest
    \/ ReadJSONEcho
    \/ NextRequest

Spec == Init /\ [][Next]_vars

----------------------------------------------------------------------------
\* Routers, routes and their middleware (router.go, middleware.go).  A
\* Middleware value is modelled by the layers it wraps around a handler,
\* outermost first; the nil Middleware is the empty sequence.

MaxRouters == 2
MaxRoutes == 1
MaxLayers == 2

NilMw == "nil"

Range(seq) == {seq[i] : i \in 1..Len(seq)}

\* the loop of composeMiddleware: nil entries are skipped, and each further
\* entry is composed around what has been composed so far
RECURSIVE composeFrom(_, _)
composeFrom(mws, mwc) ==
    IF mws = << >> THEN mwc
    ELSE IF Head(mws) = NilMw THEN composeFrom(Tail(mws), mwc)
    ELSE composeFrom(Tail(mws), <<Head(mws)>> \o mwc)

composeMiddleware(mws) == composeFrom(mws, << >>)

\* the argument lists given to Middleware
MwArgs ==
    { << >>, <<"xsrf">>, <<"auth">>, <<"xsrf", "auth">>, <<"nil", "auth">> }

\* Router.Middleware; given records every middleware this router was given
RouterMiddleware ==
    \E i \in 1..Len(routers) : \E mws \in MwArgs :
       /\ routers' =
            [routers EXCEPT
               ![i] = [mw |-> composeMiddleware(mws),
                       given |-> @.given \cup (Range(mws) \ {NilMw})]]
       /\ served' = 0
       /\ trace' = << >>
       /\ UNCHANGED routes
       /\ UNCHANGED << principal, op, right, prior, err, src, out, body,
                       scratch, target, phase, bodyRead, assetVars,
                       serveVars >>

\* Router.Path and Router.PathPrefix: the route takes the router's mw as it
\* is now
Path ==
    \E i \in 1..Len(routers) :
       /\ Len(routes) < MaxRoutes
       /\ routes' =
            Append(routes, [owner |-> i, mw |-> routers[i].mw,
                            mounted |-> FALSE, fn |-> << >>])
       /\ served' = 0
       /\ trace' = << >>
       /\ UNCHANGED routers
       /\ UNCHANGED << principal, op, right, prior, err, src, out, body,
                       scratch, target, phase, bodyRead, assetVars,
                       serveVars >>

\* Router.Subrouter: the new router takes the router's mw as it is now
Subrouter ==
    \E i \in 1..Len(routers) :
       /\ Len(routers) < MaxRouters
       /\ routers' = Append(routers, [mw |-> routers[i].mw, given |-> {}])
       /\ served' = 0
       /\ trace' = << >>
       /\ UNCHANGED routes
       /\ UNCHANGED << principal, op, right, prior, err, src, out, body,
                       scratch, target, phase, bodyRead, assetVars,
                       serveVars >>

\* Route.Middleware
RouteMiddleware ==
    \E j \in 1..Len(routes) : \E mws \in MwArgs :
       /\ routes' = [routes EXCEPT ![j].mw = composeMiddleware(mws)]
       /\ served' = 0
       /\ trace' = << >>
       /\ UNCHANGED routers
       /\ UNCHANGED << principal, op, right, prior, err, src, out, body,
                       scratch, target, phase, bodyRead, assetVars,
                       serveVars >>

\* Route.Handler: mounts a closure over the handler given
Handler ==
    \E j \in 1..Len(routes) :
       /\ routes' = [routes EXCEPT ![j].mounted = TRUE, ![j].fn = << >>]
       /\ served' = 0
       /\ trace' = << >>
       /\ UNCHANGED routers
       /\ UNCHANGED << principal, op, right, prior, err, src, out, body,
                       scratch, target, phase, bodyRead, assetVars,
                       serveVars >>

\* the closure Route.Handler mounted, serving one request: the captured fn
\* is wrapped in the route's mw, assigned back, and served
ServeRoute ==
    \E j \in 1..Len(routes) :
       \E fn \in {IF routes[j].mw # << >>
                  THEN routes[j].mw \o routes[j].fn
                  ELSE routes[j].fn} :
          /\ routes[j].mounted
          /\ Len(fn) <= MaxLayers
          /\ routes' = [routes EXCEPT ![j].fn = fn]
          /\ served' = j
          /\ trace' = fn
          /\ UNCHANGED routers
          /\ UNCHANGED << principal, op, right, prior, err, src, out, body,
                          scratch, target, phase, bodyRead, assetVars,
                          serveVars >>

RouterInit == Init /\ principal = None

RouterNext ==
    \/ RouterMiddleware
    \/ Path
    \/ Subrouter
    \/ RouteMiddleware
    \/ Handler
    \/ ServeRoute

RouterSpec == RouterInit /\ [][RouterNext]_vars

----------------------------------------------------------------------------
\* Serving a request: the route's RightCheckMiddleware, the handler's session
\* operations, BeforeResponse and the response (middleware.go, part_000).

SessionKeys == {"cart"}

\* the condition under which RightCheckMiddleware calls the wrapped handler,
\* without the HasRight test
RightCheckAuthenticatedOnly(p, r) == IsAuthenticated(p)

RightCheckPasses(p, r) == IsAuthenticated(p) /\ HasRight(p, r)

\* the closure Route.Handler mounted calls ServeContext, whose fn is the
\* handler inside the route's middleware: RightCheckMiddleware(r), or no
\* middleware (r = "").  A refused request gets EmptyJSONResponse(401) as
\* the response of fn.
RightCheck ==
    \E r \in Rights \cup {""} :
       /\ phase = "route"
       /\ requires' = r
       /\ checked' = principal
       /\ IF r = "" \/ RightCheckPasses(principal, r)
          THEN /\ handlerRan' = TRUE
               /\ phase' = "handler"
               /\ UNCHANGED << status, events >>
          ELSE /\ handlerRan' = FALSE
               /\ phase' = "before"
               /\ status' = 401
               /\ events' = Append(events, "handler")
       /\ UNCHANGED << principal, op, right, prior, err, src, out, body,
                       scratch, target, bodyRead, routerVars, assetVars,
                       destroyingSession, token, cookies >>

\* RequestContext.DestroySession
DestroySession ==
    /\ phase = "handler"
    /\ destroyingSession' = TRUE
    /\ op' = "DestroySession"
    /\ right' = ""
    /\ prior' = principal
    /\ err' = FALSE
    /\ UNCHANGED << principal, src, out, body, scratch, target, phase,
                    bodyRead, routerVars, assetVars, token, requires,
                    checked, handlerRan, events, cookies, status >>

\* RequestContext.PutSession
PutSession ==
    \E key \in SessionKeys :
       /\ phase = "handler"
       /\ token' = [token EXCEPT !.vars = @ \cup {key}]
       /\ op' = "PutSession"
       /\ right' = ""
       /\ prior' = principal
       /\ err' = FALSE
       /\ UNCHANGED << principal, src, out, body, scratch, target, phase,
                       bodyRead, routerVars, assetVars, destroyingSession,
                       requires, checked, handlerRan, events, cookies,
                       status >>

\* the handler returns its response: fn(ctx) of ServeContext is over
HandlerReturns ==
    /\ phase = "handler"
    /\ phase' = "before"
    /\ status' = 200
    /\ events' = Append(events, "handler")
    /\ UNCHANGED << principal, op, right, prior, err, src, out, body,
                    scratch, target, bodyRead, routerVars, assetVars,
                    destroyingSession, token, requires, checked,
                    handlerRan, cookies >>

DeleteCookie(name) == [name |-> name, act |-> "delete", value |-> None]

SetCookie(name, value) == [name |-> name, act |-> "set", value |-> value]

\* SetBase64JSONCookie: the cookie carries the JSON text of the value
SetBase64JSONCookie(name, value) == SetCookie(name, [k |-> "json", v |-> value])

\* SendToken: the jwt cookie carries the signed claims
SendToken(tok) == SetCookie("jwt", [k |-> "jwt", claims |-> tok])

\* Framework.DestroySession
DestroySessionCookies ==
    << DeleteCookie("xsrf"), DeleteCookie("jwt"), DeleteCookie("user") >>

\* token.Claims["sub"] is left as it was read from the request
KeepSub(tok, p) == tok

SetSub(tok, p) == [tok EXCEPT !.sub = p]

\* XSRFToken is the session identifier, the jti claim of the token
XSRFToken == "jti"

\* BeforeResponse without the return that follows DestroySession
BeforeResponseFallingThrough ==
    /\ phase = "before"
    /\ token' = SetSub(token, principal)
    /\ cookies' =
         cookies
         \o (IF destroyingSession THEN DestroySessionCookies ELSE << >>)
         \o << IF principal # None
               THEN SetBase64JSONCookie("user",
                                        [rights |-> principal.Rights])
               ELSE DeleteCookie("user"),
               SendToken(SetSub(token, principal)),
               SetCookie("xsrf", XSRFToken) >>
    /\ phase' = "write"
    /\ events' = Append(events, "BeforeResponse")
    /\ UNCHANGED << principal, op, right, prior, err, src, out, body,
                    scratch, target, bodyRead, routerVars, assetVars,
                    destroyingSession, requires, checked, handlerRan,
                    status >>

BeforeResponse ==
    /\ phase = "before"
    /\ IF destroyingSession
       THEN /\ cookies' = cookies \o DestroySessionCookies
            /\ token' = token
       ELSE /\ token' = SetSub(token, principal)
            /\ cookies' =
                 cookies
                 \o << IF principal # None
                       THEN SetBase64JSONCookie("user",
                                                [rights |-> principal.Rights])
                       ELSE DeleteCookie("user"),
                       SendToken(SetSub(token, principal)),
                       SetCookie("xsrf", XSRFToken) >>
    /\ phase' = "write"
    /\ events' = Append(events, "BeforeResponse")
    /\ UNCHANGED << principal, op, right, prior, err, src, out, body,
                    scratch, target, bodyRead, routerVars, assetVars,
                    destroyingSession, requires, checked, handlerRan,
                    status >>

\* response.ServeHTTP: the headers, cookies included, go out with the status
WriteResponse ==
    /\ phase = "write"
    /\ phase' = "responded"
    /\ events' = Append(events, "write")
    /\ UNCHANGED << principal, op, right, prior, err, src, out, body,
                    scratch, target, bodyRead, routerVars, assetVars,
                    destroyingSession, token, requires, checked,
                    handlerRan, cookies, status >>

\* readPrincipal: the sub claim, through JSON, back into a Principal
readPrincipal(tok) ==
    IF tok.sub = None THEN None
    ELSE NewPrincipal(tok.sub.Username, tok.sub.UserID, tok.sub.Rights)

\* the token the client sends with its next request: the jwt cookie the
\* response set, or none when the response deleted it
ReadToken ==
    IF \E i \in 1..Len(cookies) : cookies[i] = DeleteCookie("jwt")
    THEN buildToken
    ELSE token

\* ServeHTTP for the next request of the client: CreateRequestContext
ServeHTTP ==
    /\ phase = "responded"
    /\ phase' = "route"
    /\ token' = ReadToken
    /\ principal' = readPrincipal(ReadToken)
    /\ prior' = readPrincipal(ReadToken)
    /\ op' = "init"
    /\ right' = ""
    /\ err' = FALSE
    /\ destroyingSession' = FALSE
    /\ requires' = ""
    /\ checked' = None
    /\ handlerRan' = FALSE
    /\ events' = << >>
    /\ cookies' = << >>
    /\ status' = 0
    /\ UNCHANGED << src, out, body, scratch, target, bodyRead, routerVars,
                    assetVars >>

\* a request without a token cookie: readPrincipal finds no sub claim
ServeInit == InitContext /\ phase = "route" /\ principal = None

ServeNext ==
    \/ RightCheck
    \/ SetPrincipal
    \/ DestroyPrincipal
    \/ AddRight
    \/ RemoveRight
    \/ DestroySession
    \/ PutSession
    \/ HandlerReturns
    \/ BeforeResponse
    \/ WriteResponse
    \/ ServeHTTP

ServeSpec == ServeInit /\ [][ServeNext]_vars

----------------------------------------------------------------------------
\* AssetResolver (part_000).  An AssetHandler is a function from a path to a
\* Response or nil; the handlers here are two such functions.

MaxOps == 3

AssetHandlers == {"static", "bundle"}

Paths == {"/app.js", "/app.css", "/missing"}

\* what a handler returns for a path; None is the nil Response
Answer(h, p) ==
    IF \/ h = "static" /\ p = "/app.js"
       \/ h = "bundle" /\ p \in {"/app.js", "/app.css"}
    THEN [k |-> "response", by |-> h, path |-> p]
    ELSE None

\* the argument lists given to Chain
ChainArgs ==
    { << >>, <<"static">>, <<"bundle">>, <<"static", "bundle">> }

\* a Resolve that goes through the whole chain and keeps the last response
RECURSIVE ResolveLast(_, _)
ResolveLast(c, p) ==
    IF c = << >> THEN [invoked |-> << >>, response |-> None]
    ELSE \* the rest of the chain is asked whatever this handler answers
         [invoked |-> <<Head(c)>> \o ResolveLast(Tail(c), p).invoked,
          response |->
             IF ResolveLast(Tail(c), p).response # None
             THEN ResolveLast(Tail(c), p).response
             ELSE Answer(Head(c), p)]

\* the loop of Resolve: the handlers invoked, and the response returned
RECURSIVE Resolve(_, _)
Resolve(c, p) ==
    IF c = << >> THEN [invoked |-> << >>, response |-> None]
    ELSE IF Answer(Head(c), p) # None
    THEN [invoked |-> <<Head(c)>>, response |-> Answer(Head(c), p)]
    ELSE [invoked |-> <<Head(c)>> \o Resolve(Tail(c), p).invoked,
          response |-> Resolve(Tail(c), p).response]

PrependHandler ==
    \E h \in AssetHandlers :
       /\ Len(chainOps) < MaxOps
       /\ chain' = <<h>> \o chain
       /\ chainOps' = Append(chainOps, [op |-> "PrependHandler", arg |-> <<h>>])
       /\ path' = ""
       /\ invoked' = << >>
       /\ resolved' = None
       /\ UNCHANGED << principal, op, right, prior, err, src, out, body,
                       scratch, target, phase, bodyRead, routerVars,
                       serveVars >>

AppendHandler ==
    \E h \in AssetHandlers :
       /\ Len(chainOps) < MaxOps
       /\ chain' = Append(chain, h)
       /\ chainOps' = Append(chainOps, [op |-> "AppendHandler", arg |-> <<h>>])
       /\ path' = ""
       /\ invoked' = << >>
       /\ resolved' = None
       /\ UNCHANGED << principal, op, right, prior, err, src, out, body,
                       scratch, target, phase, bodyRead, routerVars,
                       serveVars >>

Chain ==
    \E c \in ChainArgs :
       /\ Len(chainOps) < MaxOps
       /\ chain' = c
       /\ chainOps' = Append(chainOps, [op |-> "Chain", arg |-> c])
       /\ path' = ""
       /\ invoked' = << >>
       /\ resolved' = None
       /\ UNCHANGED << principal, op, right, prior, err, src, out, body,
                       scratch, target, phase, bodyRead, routerVars,
                       serveVars >>

ResolvePath ==
    \E p \in Paths :
       /\ path' = p
       /\ invoked' = Resolve(chain, p).invoked
       /\ resolved' = Resolve(chain, p).response
       /\ UNCHANGED << chain, chainOps >>
       /\ UNCHANGED << principal, op, right, prior, err, src, out, body,
                       scratch, target, phase, bodyRead, routerVars,
                       serveVars >>

AssetInit == Init /\ principal = None

AssetNext ==
    \/ PrependHandler
    \/ AppendHandler
    \/ Chain
    \/ ResolvePath

AssetSpec == AssetInit /\ [][AssetNext]_vars

----------------------------------------------------------------------------
(* Properties.                                                             *)

Reading == op \in {"ReadJSON", "ReadJSONEcho"}

Unheld(p, r) == r # "" /\ ~HasRight(p, r)

\* a Go value handed raw to the encoder shows a field whose read right p
\* lacks: encoding/json writes every field but "-" and omitted empty ones
RECURSIVE RawExposes(_, _)
RawExposes(p, v) ==
    CASE v.k = "struct" ->
           /\ ~TypeTable[v.t].marshaler
           /\ \E i \in 1..Len(v.f) :
                LET field == TypeTable[v.t].fields[i]
                    tag == parseJSONTag(field.json)
                IN /\ tag[1] # <<"-">>
                   /\ ~(hasJSONOption(<<"omitempty">>, tag[2])
                        /\ isEmpty(v.f[i]))
                   /\ (Unheld(p, field.readWrite) \/ RawExposes(p, v.f[i]))
      [] v.k \in {"ptr", "interface"} -> ~v.nil /\ RawExposes(p, v.e)
      [] v.k \in {"slice", "array"} ->
           \E i \in 1..Len(v.e) : RawExposes(p, v.e[i])
      [] v.k = "map" -> \E i \in 1..Len(v.e) : RawExposes(p, v.e[i].val)
      [] OTHER -> FALSE

Deref(v) == IF v.k = "ptr" /\ ~v.nil THEN v.e ELSE v

\* the tree made from value v has an entry for a field whose read right p
\* lacks
RECURSIVE Exposes(_, _, _)
Exposes(p, v, tree) ==
    CASE tree.k = "raw" -> RawExposes(p, tree.v)
      [] tree.k = "list" ->
           \E i \in 1..Len(tree.e) : Exposes(p, Deref(v).e[i], tree.e[i])
      [] tree.k = "obj" ->
           \E i \in 1..Len(Deref(v).f) :
              LET field == TypeTable[Deref(v).t].fields[i] IN
              /\ parseJSONTag(field.json)[1] # <<"-">>
              /\ WireName(field) \in DOMAIN tree.m
              /\ \/ Unheld(p, field.readWrite)
                 \/ Exposes(p, Deref(v).f[i], tree.m[WireName(field)])
      [] OTHER -> FALSE

\* C1: the tree safeSerialize returns for a record, under any capability
\* set, has no entry for a field whose read right is set and not held, also
\* for records nested in slices, pointers, arrays, maps and interfaces.
C1_NoUnheldReadField ==
    (op = "JSONResponse" /\ out.k # "panic") => ~Exposes(principal, src, out)

\* the fields of b whose write right p lacks have the same value in a,
\* following records, pointers and slices
RECURSIVE WriteGatedKept(_, _, _)
WriteGatedKept(p, b, a) ==
    CASE b.k = "struct" ->
           \A i \in 1..Len(b.f) :
              IF Unheld(p, TypeTable[b.t].fields[i].writeRight)
              THEN a.f[i] = b.f[i]
              ELSE WriteGatedKept(p, b.f[i], a.f[i])
      [] b.k = "ptr" -> (~b.nil /\ ~a.nil) => WriteGatedKept(p, b.e, a.e)
      [] b.k = "slice" ->
           \A i \in 1..Len(b.e) :
              i <= Len(a.e) => WriteGatedKept(p, b.e[i], a.e[i])
      [] OTHER -> TRUE

\* C2: when the body decodes without error, ReadJSON leaves unchanged every
\* field of the target, at any depth and also behind pointers and slices,
\* whose writeRight is set and not held.
C2_WriteGatedFieldsKept ==
    (Reading /\ ~err) => WriteGatedKept(principal, src, target)

Permitted(p, field) == field.writeRight = "" \/ HasRight(p, field.writeRight)

\* C3 as stated: after a successful ReadJSON every field of the target with
\* no writeRight, or a held one, equals the scratch record's field.
C3_PermittedFieldEqualsScratch ==
    (Reading /\ ~err) =>
       \A i \in 1..Len(target.f) :
          Permitted(principal, TypeTable[target.t].fields[i]) =>
             target.f[i] = scratch.f[i]

\* a is s in every permitted field that is not itself a record merged field
\* by field, and such a record is so below
RECURSIVE CopiedFromScratch(_, _, _)
CopiedFromScratch(p, s, a) ==
    \A i \in 1..Len(a.f) :
       Permitted(p, TypeTable[a.t].fields[i]) =>
          IF s.f[i].k = "struct" /\ ~TypeTable[s.f[i].t].unmarshaler
          THEN CopiedFromScratch(p, s.f[i], a.f[i])
          ELSE a.f[i] = s.f[i]

\* C3 amended: after a successful ReadJSON every permitted field that is
\* not a plain record equals the scratch record's field (its zero value
\* when the body does not name it), at any depth reached through permitted
\* plain-record fields; a plain-record field is merged field by field.
C3_PermittedLeafEqualsScratch ==
    (Reading /\ ~err) => CopiedFromScratch(principal, scratch, target)

\* a permitted field the body does not name went from "x" to its zero value
C3_Witness ==
    /\ op = "ReadJSON"
    /\ ~err
    /\ src.t = "Account"
    /\ "name" \notin DOMAIN body.m
    /\ src.f[1] = GoString("x")
    /\ target.f[1] = GoString("")
    /\ scratch.f[1] = GoString("")

\* C4: when decoding the body into the scratch record fails, ReadJSON
\* returns the error and the target is unchanged in every field.
C4_DecodeErrorLeavesTarget ==
    (Reading /\ DecodeError(body, src.t)) => (err /\ target = src)

\* decoding failed after it had set a field of the scratch record
C4_Witness ==
    /\ op = "ReadJSON"
    /\ err
    /\ body.k = "obj"
    /\ scratch # Zero(src.t)
    /\ scratch # src
    /\ target = src

\* C5: serializing a record under a capability set with every right and
\* reading the result back into it under the same set leaves every field
\* of the record as it was.
C5_RoundTrip ==
    (op = "ReadJSONEcho" /\ \A r \in Rights : HasRight(principal, r)) =>
       (~err /\ target = src)

\* C6: a record embedding Mid, which embeds Base, serializes to one flat
\* tree: the fields of Base and Mid are top-level keys, there is no key for
\* an embedded field, and of two fields with one name the later one wins.
C6_EmbeddingFlattened ==
    (op = "JSONResponse" /\ src.k = "struct" /\ src.t = "Outer") =>
       /\ out.k = "obj"
       /\ DOMAIN out.m = {"id", "kind", "label", "title"}
       /\ out.m["title"] = TRaw(src.f[3])

\* C7: without a principal no field with a read right is in the serialized
\* output and no field with a writeRight is changed by ReadJSON.
C7_UnauthenticatedSeesAndWritesNothingGated ==
    principal = None =>
       /\ (op = "JSONResponse" /\ out.k # "panic") => ~Exposes(None, src, out)
       /\ (Reading /\ ~err) => WriteGatedKept(None, src, target)

\* the emptiness table of the specification
EmptyByTable(v) ==
    CASE v.k \in {"slice", "map", "array"} -> v.e = <<>>
      [] v.k = "string" -> v.s = ""
      [] v.k = "bool" -> v.b = FALSE
      [] v.k = "int" -> v.n = 0
      [] v.k \in {"ptr", "interface"} -> v.nil
      [] OTHER -> FALSE

\* the option list of a field's json tag names omitempty, at any place
OmitOnEmpty(field) ==
    \E i \in 2..Len(field.json) :
       field.json[i] = "omitempty" /\ field.json[i - 1] = ","

\* the field's wire name is the suppress sentinel
Suppressed(field) == Len(field.json) >= 1 /\ field.json[1] = "-"

\* the fields of v that p may read and whose wire name is not suppressed
\* are keys of the tree except for the omit-on-empty ones that are empty
OmitsExactlyTheEmpty(p, v, tree) ==
    \A i \in 1..Len(v.f) :
       LET field == TypeTable[v.t].fields[i] IN
       (~Unheld(p, field.readWrite) /\ ~Suppressed(field)) =>
          (WireName(field) \in DOMAIN tree.m
             <=> ~(OmitOnEmpty(field) /\ EmptyByTable(v.f[i])))

\* C8: a readable field with omit-on-empty is absent from the tree exactly
\* when it is empty by the emptiness table, and a readable field without
\* the option is present even when empty.
C8_OmitOnEmpty ==
    (op = "JSONResponse" /\ src.k = "struct"
       /\ src.t \in {"Scalars", "Refs", "Account"}) =>
       /\ out.k = "obj"
       /\ OmitsExactlyTheEmpty(principal, src, out)

\* what C8 says of the records for which safeSerialize returns a tree
C8_OmitOnEmptyWhenReturned ==
    (op = "JSONResponse" /\ src.k = "struct" /\ out.k = "obj"
       /\ src.t \in {"Scalars", "Refs", "Account"}) =>
       OmitsExactlyTheEmpty(principal, src, out)

\* C9: serializing a value with a nil pointer at the top level, in a field
\* without omit-on-empty or in a slice completes and puts a wire null there.
C9_NilReferenceIsNull ==
    op = "JSONResponse" =>
       /\ src \in {NilValue, NilPtr} =>
            (out.k # "panic" /\ JSONEncode(out) = WNull)
       /\ (src.k = "struct" /\ src.t = "Refs" /\ src.f[4].nil) =>
            (out.k = "obj" /\ "q" \in DOMAIN out.m
               /\ JSONEncode(out.m["q"]) = WNull)
       /\ (src.k = "slice" /\ \E i \in 1..Len(src.e) : src.e[i] = NilPtr) =>
            (out.k = "list"
               /\ \A i \in 1..Len(src.e) :
                     src.e[i] = NilPtr => JSONEncode(out.e[i]) = WNull)

Count(list, x) == Cardinality({i \in 1..Len(list) : list[i] = x})

\* list without its entry at place i
Without(list, i) == SubSeq(list, 1, i - 1) \o SubSeq(list, i + 1, Len(list))

\* C10: RemoveRight(r) on an authenticated session whose rights hold r
\* removes one entry equal to r and keeps the others in order (so r is no
\* longer held when it occurred once); otherwise the list is unchanged.
C10_RemoveRightRemoves ==
    op = "RemoveRight" =>
       IF prior # None /\ hasItem(right, prior.Rights)
       THEN /\ \E i \in 1..Len(prior.Rights) :
                  /\ prior.Rights[i] = right
                  /\ principal.Rights = Without(prior.Rights, i)
            /\ Count(prior.Rights, right) = 1 => ~HasRight(principal, right)
       ELSE principal = prior

\* C11: HasRight(r) is true exactly when a principal is present and its
\* rights list has an entry equal to r, whatever operations came before and
\* however often r occurs; AddRight appends without deduplicating, and on an
\* unauthenticated session it returns an error and creates no principal.
C11_HasRightIsMembership ==
    /\ \A r \in Rights :
          HasRight(principal, r) <=>
             (principal # None /\ Count(principal.Rights, r) >= 1)
    /\ op = "AddRight" =>
          IF prior = None
          THEN err /\ principal = None
          ELSE /\ ~err
               /\ principal.Rights = prior.Rights \o <<right>>
               /\ Count(principal.Rights, right)
                    = Count(prior.Rights, right) + 1

\* a right granted twice is in the list twice, in second place, and is held
C11_Witness ==
    /\ op = "AddRight"
    /\ prior # None
    /\ prior.Rights = <<"edit">>
    /\ right = "edit"
    /\ principal.Rights = <<"edit", "edit">>
    /\ HasRight(principal, "edit")
    /\ ~HasRight(principal, "admin")

\* C12: a request served by an endpoint of a router passes through every
\* middleware that was given to that router's Middleware, whatever the order
\* of the Path, Subrouter and Middleware calls
C12_RouterMiddlewareOnAllEndpoints ==
    served # 0 =>
       routers[routes[served].owner].given \subseteq Range(trace)

\* C13: a handler behind RightCheckMiddleware(right) is invoked only when, at
\* the moment of the check, the context is authenticated and its rights list
\* holds that right; otherwise it is never invoked (none of its operations
\* happens) and the response is EmptyJSONResponse(401)
C13_RightCheckGuardsHandler ==
    (requires # "" /\ phase # "route") =>
       IF checked # None /\ Count(checked.Rights, requires) >= 1
       THEN handlerRan
       ELSE /\ ~handlerRan
            /\ status = 401
            /\ op = "init"
            /\ principal = checked

\* an authenticated request without the right asked for was answered 401
C13_Witness ==
    /\ phase = "responded"
    /\ requires = "admin"
    /\ checked # None
    /\ checked.Rights = <<"edit">>
    /\ ~handlerRan
    /\ status = 401

ServeOrder == << "handler", "BeforeResponse", "write" >>

CookiesNamed(name) ==
    {cookies[i] : i \in {j \in 1..Len(cookies) : cookies[j].name = name}}

\* the token cookie is set once and its sub claim is the principal; the user
\* cookie is set with the principal's rights when there is a principal and
\* deleted when there is none
CarriesPrincipal ==
    /\ \E c \in CookiesNamed("jwt") :
          /\ CookiesNamed("jwt") = {c}
          /\ c.act = "set"
          /\ c.value.claims.sub = principal
    /\ \E c \in CookiesNamed("user") :
          /\ CookiesNamed("user") = {c}
          /\ IF principal # None
             THEN c.act = "set" /\ c.value.v.rights = principal.Rights
             ELSE c.act = "delete"

\* C15 as stated: every request served through ServeContext runs the
\* handler, then BeforeResponse, then writes the response, and the response
\* carries the principal the handler left in the token's sub claim and the
\* user cookie (set when a principal is present, deleted when absent)
C15_ResponseCarriesPrincipal ==
    /\ events = SubSeq(ServeOrder, 1, Len(events))
    /\ phase = "responded" => (events = ServeOrder /\ CarriesPrincipal)

\* C15, amended: the order holds for every request; the token's sub claim
\* and the user cookie carry the principal the handler left unless the
\* handler called DestroySession
C15_ResponseCarriesPrincipalUnlessDestroyed ==
    /\ events = SubSeq(ServeOrder, 1, Len(events))
    /\ phase = "responded" =>
          /\ events = ServeOrder
          /\ ~destroyingSession => CarriesPrincipal

\* a served request whose handler granted a right: the right is in the sub
\* claim and in the user cookie of the response
C15_Witness ==
    /\ phase = "responded"
    /\ ~destroyingSession
    /\ op = "AddRight"
    /\ ~err
    /\ checked # principal
    /\ principal.Rights = <<"edit", "admin">>
    /\ token.sub = principal
    /\ CarriesPrincipal

\* C16: once the handler has called DestroySession the request stays marked
\* whatever session operation follows, and BeforeResponse then only deletes
\* the jwt, xsrf and user cookies: no cookie of the response is set
C16_DestroySessionOnlyDeletes ==
    [][ /\ op' = "DestroySession" => destroyingSession'
        /\ (destroyingSession /\ phase # "responded") => destroyingSession'
        /\ (destroyingSession /\ phase = "before" /\ phase' = "write") =>
              /\ Len(cookies') = 3
              /\ \A i \in 1..Len(cookies') : cookies'[i].act = "delete"
              /\ {cookies'[i].name : i \in 1..Len(cookies')}
                    = {"jwt", "xsrf", "user"}
      ]_vars

\* a session destroyed first and then given a principal and a session
\* variable: the response only deletes the three cookies
C16_Witness ==
    /\ phase = "responded"
    /\ destroyingSession
    /\ op = "SetPrincipal"
    /\ principal # None
    /\ principal.Rights # << >>
    /\ token.vars # {}
    /\ \A i \in 1..Len(cookies) : cookies[i].act = "delete"
    /\ Len(cookies) = 3

\* the calls made since the last Chain call (all of them when there was none)
SinceChain ==
    LET last == {i \in 1..Len(chainOps) : chainOps[i].op = "Chain"}
        from == IF last = {} THEN 0
                ELSE CHOOSE i \in last : \A j \in last : j <= i
    IN  [base |-> IF from = 0 THEN << >> ELSE chainOps[from].arg,
         later |-> SubSeq(chainOps, from + 1, Len(chainOps))]

RECURSIVE Reverse(_)
Reverse(seq) ==
    IF seq = << >> THEN << >> ELSE Append(Reverse(Tail(seq)), Head(seq))

IsPrepend(c) == c.op = "PrependHandler"

IsAppend(c) == c.op = "AppendHandler"

Args(calls) == [i \in 1..Len(calls) |-> calls[i].arg[1]]

\* the chain order the calls ask for: what was prepended since the last
\* Chain, latest first, then the arguments of that Chain, then what was
\* appended since, in call order
ChainOrder ==
    Reverse(Args(SelectSeq(SinceChain.later, IsPrepend)))
       \o SinceChain.base
       \o Args(SelectSeq(SinceChain.later, IsAppend))

\* the positions of the chain whose handler answers the path
Answering == {i \in 1..Len(chain) : Answer(chain[i], path) # None}

\* C14: after any PrependHandler, AppendHandler and Chain calls the chain is
\* in the order they ask for, and Resolve(path) invokes the handlers in that
\* order up to the first that answers, returns its response, and returns nil
\* after invoking all of them when none answers or the chain is empty
C14_ResolveFirstInChainOrder ==
    /\ chain = ChainOrder
    /\ path # "" =>
          IF Answering = {}
          THEN invoked = chain /\ resolved = None
          ELSE \E i \in Answering :
                  /\ \A j \in Answering : i <= j
                  /\ invoked = SubSeq(chain, 1, i)
                  /\ resolved = Answer(chain[i], path)

\* Chain(bundle), PrependHandler(static), AppendHandler(static), then
\* Resolve("/app.css"): static is asked and returns nil, bundle answers, and
\* the handler appended last is not asked
C14_Witness ==
    /\ chainOps = << [op |-> "Chain", arg |-> <<"bundle">>],
                     [op |-> "PrependHandler", arg |-> <<"static">>],
                     [op |-> "AppendHandler", arg |-> <<"static">>] >>
    /\ chain = <<"static", "bundle", "static">>
    /\ path = "/app.css"
    /\ invoked = <<"static", "bundle">>
    /\ resolved = Answer("bundle", "/app.css")

====
